---- MODULE Spec2Model ----
(***************************************************************************)
(* State-machine model of the SDL3 sound DMA back end                      *)
(* (MP/code/sdl/sdl_snd.c): the playback ring buffer and its hardware      *)
(* callback, device negotiation in SNDDMA_Init, SNDDMA_Shutdown, the mixer *)
(* lock bracket, and the capture stream.                                   *)
(*                                                                         *)
(* Two threads are modelled: the main thread (every SNDDMA_* entry point)  *)
(* and the audio device thread, which runs SNDDMA_AudioCallback while it   *)
(* holds the playback stream's lock.                                       *)
(*                                                                         *)
(* Memory is modelled sparsely: a byte string is [n |-> length,            *)
(* nz |-> function from the offsets of its non-zero bytes to their         *)
(* values]; every other byte of it is zero.                                *)
(***************************************************************************)
EXTENDS Integers, Sequences, FiniteSets, TLC

\* ------------------------------------------------------------------ bounds

\* Largest number of bytes the playback stream holds before the device
\* thread stops asking for more (the stream's queue is emptied when the
\* stream is destroyed).
MaxQueued == 2

\* Largest request of the device thread, in ring-buffer lengths, while the
\* ring buffer is in use (it caps the iterations of the copy loop).
MaxPasses == 3

\* Largest number of bytes the capture stream holds.
MaxCapQueued == 2

\* Largest sample count passed to SNDDMA_Capture.
MaxCaptureSamples == 2

\* Number of leading ring-buffer samples the mixer writes to.
MaxPaintSamples == 1

\* ------------------------------------------------------- program constants

\* sizeof(silence) in SNDDMA_QueueSilence.
SilenceSize == 4096

\* Safety margin of the derived ring-buffer size.
MixMultiplier == 10

\* Fallback ring-buffer size per channel.
FallbackSamples == 2048

\* ------------------------------------------------------------ input sets

\* AUDIO_U8, AUDIO_S16SYS and AUDIO_F32SYS as the device may grant them:
\* SDL_AUDIO_BITSIZE and SDL_AUDIO_ISFLOAT of each.
Formats == { [bits |-> 8, isfloat |-> FALSE], [bits |-> 16, isfloat |-> FALSE] }

\* Channel counts the device may grant.
ChannelCounts == {1, 2}

\* Hardware buffer sizes, in frames, the device may report.
DeviceFrames == {0, 1}

\* Values of the s_sdlMixSamps cvar (0: no override).
MixSampsValues == {-1, 0, 1, 3}

\* Sample rate the device grants.
ObtainedFreqs == {44100}

\* (additional_amount, total_amount) pairs the device thread passes.
Requests == { <<0, 0>>, <<1, 1>>, <<0, 3>>, <<4097, 4097>> }

\* Values passed to SNDDMA_MasterGain (1 stands for 1.0f).
Gains == {1, 2}

\* Sample counts passed to SNDDMA_Capture.
CaptureCounts == {1, MaxCaptureSamples}

\* Byte values the microphone delivers.
MicBytes == {7}

\* Byte values the caller's capture buffer holds before SNDDMA_Capture.
StaleBytes == {170}

\* ------------------------------------------------------------ byte strings

NoBytes == [i \in {} |-> 0]

Zeros(n) == [n |-> n, nz |-> NoBytes]

ByteAt(bs, i) == IF i \in DOMAIN bs.nz THEN bs.nz[i] ELSE 0

\* The n bytes of bs from offset pos on.
Slice(bs, pos, n) ==
    LET hit == { k \in DOMAIN bs.nz : k >= pos /\ k < pos + n }
    IN  [n |-> n, nz |-> [i \in { k - pos : k \in hit } |-> bs.nz[i + pos]]]

\* bs with the bytes of src written from offset pos on (memcpy / memset).
Overwrite(bs, pos, src) ==
    LET keep == { k \in DOMAIN bs.nz : k < pos \/ k >= pos + src.n }
        new  == { k + pos : k \in DOMAIN src.nz }
    IN  [n |-> bs.n,
         nz |-> [i \in keep \cup new |->
                    IF i \in new THEN src.nz[i - pos] ELSE bs.nz[i]]]

\* n bytes that all have the (non-zero) value v.
Fill(n, v) == [n |-> n, nz |-> [i \in 0..(n - 1) |-> v]]

\* C integer division and remainder for a positive divisor (truncation
\* toward zero).
CDiv(a, b) == IF a >= 0 THEN a \div b ELSE -((-a) \div b)
CMod(a, b) == a - b * CDiv(a, b)

\* ------------------------------------------------------------------ state

VARIABLES
    snd_inited,         \* qboolean snd_inited
    dmapos,             \* static int dmapos: read cursor, in samples
    dmasize,            \* static int dmasize: ring-buffer size, in bytes
    dma,                \* dma_t dma: buffer pointer and negotiated format
    heap,               \* the block dma.buffer points to: allocated, size, bytes
    sdlPlaybackStream,  \* 0 is NULL
    sdlPlaybackDevice,  \* 0 is no device
    sdlCaptureStream,   \* 0 is NULL
    sdlCaptureDevice,
    sdlMasterGain,
    sdlAudioRef,        \* SDL: reference count of SDL_INIT_AUDIO
    sdlPlaybackOpen,    \* SDL: number of open playback streams
    sdlCaptureOpen,     \* SDL: number of open capture streams
    pbPaused,           \* SDL: the playback device is paused
    pbGain,             \* SDL: gain of the playback stream
    pbLock,             \* SDL: holder of the playback stream's lock
    out,                \* SDL: SDL_PutAudioStreamData calls on the playback stream
    capRunning,         \* SDL: the capture device is not paused
    capQueued,          \* SDL: bytes queued in the capture stream
    cb,                 \* device thread: position and locals of the callback
    mainPc,             \* main thread: position
    local,              \* main thread: locals of the running function
    ret                 \* what the step just taken handed back to its caller
                        \* (function, return line, value), if it was a return

vars == << snd_inited, dmapos, dmasize, dma, heap, sdlPlaybackStream,
           sdlPlaybackDevice, sdlCaptureStream, sdlCaptureDevice, sdlMasterGain,
           sdlAudioRef, sdlPlaybackOpen, sdlCaptureOpen, pbPaused, pbGain, pbLock,
           out, capRunning, capQueued, cb, mainPc, local, ret >>

\* The variables of the core itself (file-scope statics and dma).
coreVars == << snd_inited, dmapos, dmasize, dma, heap, sdlPlaybackStream,
               sdlPlaybackDevice, sdlCaptureStream, sdlCaptureDevice,
               sdlMasterGain >>

\* The state SDL keeps.
sdlVars == << sdlAudioRef, sdlPlaybackOpen, sdlCaptureOpen, pbPaused, pbGain,
              pbLock, out, capRunning, capQueued >>

NoHeap == [allocated |-> FALSE, n |-> 0, nz |-> NoBytes]

NoLocal == [obtained |-> [bits |-> 0, isfloat |-> FALSE, channels |-> 0, freq |-> 0],
            obtainedSamples |-> 0, released |-> 0]

CbIdle == [pc |-> "idle", len |-> 0, bytesPerSample |-> 0, req |-> 0, start |-> 0,
           cursor |-> 0]

Return(fn, line, val) == [fn |-> fn, line |-> line, val |-> val]

\* The step handed nothing back: it was no return, or the return of a
\* function that returns no value and writes to no buffer of its caller.
NoReturn == Return("none", 0, 0)

\* Statics are zero-initialised; sdlMasterGain is initialised to 1.0f.
Init ==
    /\ snd_inited = FALSE
    /\ dmapos = 0
    /\ dmasize = 0
    /\ dma = [buffer |-> 0, samplebits |-> 0, isfloat |-> FALSE, channels |-> 0,
              samples |-> 0, fullsamples |-> 0, submission_chunk |-> 0, speed |-> 0]
    /\ heap = NoHeap
    /\ sdlPlaybackStream = 0
    /\ sdlPlaybackDevice = 0
    /\ sdlCaptureStream = 0
    /\ sdlCaptureDevice = 0
    /\ sdlMasterGain = 1
    /\ sdlAudioRef = 0
    /\ sdlPlaybackOpen = 0
    /\ sdlCaptureOpen = 0
    /\ pbPaused = TRUE
    /\ pbGain = 1
    /\ pbLock = "none"
    /\ out = << >>
    /\ capRunning = FALSE
    /\ capQueued = 0
    /\ cb = CbIdle
    /\ mainPc = "idle"
    /\ local = NoLocal
    /\ ret = NoReturn

\* ------------------------------------------------------------ SDL effects

\* SDL_QuitSubSystem(SDL_INIT_AUDIO): the reference count drops by one and
\* stays at zero; the audio subsystem shuts down, destroying every stream
\* still open, when the last reference goes.
QuitRef(ref) == IF ref > 0 THEN ref - 1 ELSE 0
OpenAfterQuit(ref, n) == IF ref = 1 THEN 0 ELSE n

\* ------------------------------------------------------------ SNDDMA_Init

\* Faulty variant of RingSamples: no fallback for a count that is not positive.
RingSamples_NoFallback(mixSamps, obtainedSamples, channels) ==
    LET tmp1 == IF mixSamps = 0
                THEN (obtainedSamples * channels) * MixMultiplier
                ELSE mixSamps
    IN  tmp1 - CMod(tmp1, channels)

\* Faulty variant of RingSamples: the count is not rounded to the channel count.
RingSamples_NoRounding(mixSamps, obtainedSamples, channels) ==
    LET tmp1 == IF mixSamps = 0
                THEN (obtainedSamples * channels) * MixMultiplier
                ELSE mixSamps
    IN  IF tmp1 <= 0 THEN channels * FallbackSamples ELSE tmp1

\* Ring-buffer sample count: the override if set, else frames x channels x
\* 10; channels x 2048 if that is not positive; rounded down to a multiple
\* of the channel count.
RingSamples(mixSamps, obtainedSamples, channels) ==
    LET tmp1 == IF mixSamps = 0
                THEN (obtainedSamples * channels) * MixMultiplier
                ELSE mixSamps
        tmp2 == IF tmp1 <= 0 THEN channels * FallbackSamples ELSE tmp1
    IN  tmp2 - CMod(tmp2, channels)

\* Faulty variant of SNDDMA_Init_AlreadyInited: the cursor is rewound.
SNDDMA_Init_AlreadyInited_Rewinds ==
    /\ snd_inited
    /\ dmapos' = 0
    /\ ret' = Return("SNDDMA_Init", 186, TRUE)
    /\ UNCHANGED << snd_inited, dmasize, dma, heap, sdlPlaybackStream,
                    sdlPlaybackDevice, sdlCaptureStream, sdlCaptureDevice,
                    sdlMasterGain, sdlVars, cb, mainPc, local >>

\* Lines 185-186: already initialised, nothing to do.
SNDDMA_Init_AlreadyInited ==
    /\ snd_inited
    /\ ret' = Return("SNDDMA_Init", 186, TRUE)
    /\ UNCHANGED << coreVars, sdlVars, cb, mainPc, local >>

\* Lines 198-202: SDL_Init fails.
SNDDMA_Init_SdlInitFails ==
    /\ ~snd_inited
    /\ ret' = Return("SNDDMA_Init", 201, FALSE)
    /\ UNCHANGED << coreVars, sdlVars, cb, mainPc, local >>

\* Lines 224-230: SDL_OpenAudioDeviceStream fails.
SNDDMA_Init_OpenFails ==
    /\ ~snd_inited
    /\ sdlPlaybackStream' = 0
    /\ sdlAudioRef' = QuitRef(sdlAudioRef + 1)
    /\ sdlPlaybackOpen' = OpenAfterQuit(sdlAudioRef + 1, sdlPlaybackOpen)
    /\ sdlCaptureOpen' = OpenAfterQuit(sdlAudioRef + 1, sdlCaptureOpen)
    /\ ret' = Return("SNDDMA_Init", 229, FALSE)
    /\ UNCHANGED << snd_inited, dmapos, dmasize, dma, heap, sdlPlaybackDevice,
                    sdlCaptureStream, sdlCaptureDevice, sdlMasterGain,
                    pbPaused, pbGain, pbLock, out, capRunning, capQueued,
                    cb, mainPc, local >>

\* Lines 232-241: the stream opens; it has no device id, or
\* SDL_GetAudioDeviceFormat fails.
SNDDMA_Init_FormatFails ==
    /\ ~snd_inited
    /\ sdlPlaybackStream' = 0
    /\ sdlPlaybackDevice' = 0
    /\ sdlAudioRef' = QuitRef(sdlAudioRef + 1)
    /\ sdlPlaybackOpen' =
           OpenAfterQuit(sdlAudioRef + 1, (sdlPlaybackOpen + 1) - 1)
    /\ sdlCaptureOpen' = OpenAfterQuit(sdlAudioRef + 1, sdlCaptureOpen)
    /\ pbPaused' = TRUE
    /\ pbGain' = 1
    /\ out' = << >>
    /\ ret' = Return("SNDDMA_Init", 240, FALSE)
    /\ UNCHANGED << snd_inited, dmapos, dmasize, dma, heap,
                    sdlCaptureStream, sdlCaptureDevice, sdlMasterGain,
                    pbLock, capRunning, capQueued, cb, mainPc, local >>

\* Faulty variant of SNDDMA_Init_Negotiated: a stream is opened whether or
\* not the system is initialised already.
SNDDMA_Init_Negotiated_NoGuard ==
    /\ \E f \in Formats, c \in ChannelCounts, hz \in ObtainedFreqs,
          n \in DeviceFrames :
          local' = [obtained |-> [bits |-> f.bits, isfloat |-> f.isfloat,
                                  channels |-> c, freq |-> hz],
                    obtainedSamples |-> n, released |-> 0]
    /\ sdlAudioRef' = sdlAudioRef + 1
    /\ sdlPlaybackStream' = 1
    /\ sdlPlaybackOpen' = sdlPlaybackOpen + 1
    /\ sdlPlaybackDevice' = 1
    /\ pbPaused' = TRUE
    /\ pbGain' = 1
    /\ out' = << >>
    /\ mainPc' = "init_negotiated"
    /\ ret' = NoReturn
    /\ UNCHANGED << snd_inited, dmapos, dmasize, dma, heap,
                    sdlCaptureStream, sdlCaptureDevice, sdlMasterGain,
                    sdlCaptureOpen, pbLock, capRunning, capQueued, cb >>

\* Lines 198-243: the stream opens, paused, and the device reports its
\* format and buffer size.
SNDDMA_Init_Negotiated ==
    /\ ~snd_inited
    /\ \E f \in Formats, c \in ChannelCounts, hz \in ObtainedFreqs,
          n \in DeviceFrames :
          local' = [obtained |-> [bits |-> f.bits, isfloat |-> f.isfloat,
                                  channels |-> c, freq |-> hz],
                    obtainedSamples |-> n, released |-> 0]
    /\ sdlAudioRef' = sdlAudioRef + 1
    /\ sdlPlaybackStream' = 1
    /\ sdlPlaybackOpen' = sdlPlaybackOpen + 1
    /\ sdlPlaybackDevice' = 1
    /\ pbPaused' = TRUE
    /\ pbGain' = 1
    /\ out' = << >>
    /\ mainPc' = "init_negotiated"
    /\ ret' = NoReturn
    /\ UNCHANGED << snd_inited, dmapos, dmasize, dma, heap,
                    sdlCaptureStream, sdlCaptureDevice, sdlMasterGain,
                    sdlCaptureOpen, pbLock, capRunning, capQueued, cb >>

\* Lines 185-243: early return, SDL_Init, stream open, format readback.
SNDDMA_Init_Negotiate ==
    /\ mainPc = "idle"
    /\ \/ SNDDMA_Init_AlreadyInited
       \/ SNDDMA_Init_SdlInitFails
       \/ SNDDMA_Init_OpenFails
       \/ SNDDMA_Init_FormatFails
       \/ SNDDMA_Init_Negotiated

\* Line 269: the ring-buffer size in bytes.
RingBytes(samples, bits) == samples * (bits \div 8)

\* Lines 252-279 with s_sdlMixSamps->value = mixSamps and calloc succeeding
\* or not: ring-buffer sizing, the dma fields, calloc.
SNDDMA_Init_AllocateWith(mixSamps, allocOk) ==
    /\ mainPc = "init_negotiated"
    /\ LET tmp   == RingSamples(mixSamps, local.obtainedSamples,
                               local.obtained.channels)
           size  == RingBytes(tmp, local.obtained.bits)
       IN  /\ dmapos' = 0
           /\ dmasize' = size
           /\ dma' = [buffer |-> IF allocOk THEN 1 ELSE 0,
                      samplebits |-> local.obtained.bits,
                      isfloat |-> local.obtained.isfloat,
                      channels |-> local.obtained.channels,
                      samples |-> tmp,
                      fullsamples |-> tmp \div local.obtained.channels,
                      submission_chunk |-> 1,
                      speed |-> local.obtained.freq]
           /\ IF allocOk
              THEN /\ heap' = [allocated |-> TRUE, n |-> size, nz |-> NoBytes]
                   /\ mainPc' = "init_allocated"
                   /\ ret' = NoReturn
                   /\ UNCHANGED << sdlPlaybackStream, sdlPlaybackDevice,
                                   sdlAudioRef, sdlPlaybackOpen, sdlCaptureOpen,
                                   local >>
              ELSE /\ heap' = heap
                   /\ sdlPlaybackStream' = 0
                   /\ sdlPlaybackDevice' = 0
                   /\ sdlAudioRef' = QuitRef(sdlAudioRef)
                   /\ sdlPlaybackOpen' =
                          OpenAfterQuit(sdlAudioRef, sdlPlaybackOpen - 1)
                   /\ sdlCaptureOpen' = OpenAfterQuit(sdlAudioRef, sdlCaptureOpen)
                   /\ mainPc' = "idle"
                   /\ local' = NoLocal
                   /\ ret' = Return("SNDDMA_Init", 278, FALSE)
    /\ UNCHANGED << snd_inited, sdlCaptureStream, sdlCaptureDevice, sdlMasterGain,
                    pbPaused, pbGain, pbLock, out, capRunning, capQueued, cb >>

\* Lines 252-279: ring-buffer sizing, the dma fields, calloc.
SNDDMA_Init_Allocate ==
    \E mixSamps \in MixSampsValues, allocOk \in BOOLEAN :
       SNDDMA_Init_AllocateWith(mixSamps, allocOk)

\* Lines 281-318: the capture stream, if enabled and available, opened and
\* paused; unity gain; the playback device resumed.
SNDDMA_Init_Resume ==
    /\ mainPc = "init_allocated"
    /\ \E captureOpens \in BOOLEAN :
          IF captureOpens
          THEN /\ sdlCaptureStream' = 1
               /\ sdlCaptureDevice' = 1
               /\ sdlCaptureOpen' = sdlCaptureOpen + 1
               /\ capRunning' = FALSE
               /\ capQueued' = 0
          ELSE /\ UNCHANGED << sdlCaptureStream, sdlCaptureDevice, sdlCaptureOpen,
                               capRunning, capQueued >>
    /\ sdlMasterGain' = 1
    /\ pbGain' = IF sdlPlaybackStream # 0 THEN 1 ELSE pbGain
    /\ pbPaused' = FALSE
    /\ mainPc' = "init_resumed"
    /\ ret' = NoReturn
    /\ UNCHANGED << snd_inited, dmapos, dmasize, dma, heap, sdlPlaybackStream,
                    sdlPlaybackDevice, sdlAudioRef, sdlPlaybackOpen, pbLock, out,
                    cb, local >>

\* Lines 321-323.
SNDDMA_Init_Finish ==
    /\ mainPc = "init_resumed"
    /\ snd_inited' = TRUE
    /\ mainPc' = "idle"
    /\ local' = NoLocal
    /\ ret' = Return("SNDDMA_Init", 323, TRUE)
    /\ UNCHANGED << dmapos, dmasize, dma, heap, sdlPlaybackStream,
                    sdlPlaybackDevice, sdlCaptureStream, sdlCaptureDevice,
                    sdlMasterGain, sdlVars, cb >>

\* --------------------------------------------------- the playback callback

\* One SDL_PutAudioStreamData call: the line of the callback that led to it
\* (93 and 118: SNDDMA_QueueSilence; 112: the copy loop), the offset of the
\* bytes in their source (the ring buffer, or the silence array) and the
\* bytes.
Put(line, pos, data) == [line |-> line, pos |-> pos, data |-> data]

RECURSIVE OutLen(_)
\* Number of bytes a sequence of puts queued.
OutLen(puts) ==
    IF puts = << >> THEN 0 ELSE Head(puts).data.n + OutLen(Tail(puts))

\* Faulty variant of SNDDMA_QueueSilence: one chunk only, without the loop.
SNDDMA_QueueSilence_OneChunk(len, line) ==
    IF len > 0
    THEN << Put(line, 0, Zeros(IF len > SilenceSize THEN SilenceSize ELSE len)) >>
    ELSE << >>

RECURSIVE SNDDMA_QueueSilence(_, _)
\* The puts of SNDDMA_QueueSilence(stream, len), called from `line`: chunks
\* of the static all-zero array, each at most sizeof(silence) long.
SNDDMA_QueueSilence(len, line) ==
    IF len > 0
    THEN LET chunk == IF len > SilenceSize THEN SilenceSize ELSE len
         IN  << Put(line, 0, Zeros(chunk)) >> \o SNDDMA_QueueSilence(len - chunk, line)
    ELSE << >>

\* What reading n bytes at dma.buffer + pos can yield: the bytes of the
\* block, or anything at all when the read leaves the allocation.
RingRead(pos, n) ==
    IF heap.allocated /\ pos >= 0 /\ pos + n <= heap.n
    THEN { Slice(heap, pos, n) }
    ELSE { Zeros(n), Fill(n, 255) }

\* Line 83: the request length.
RequestLen(additional_amount, total_amount) ==
    IF additional_amount > 0 THEN additional_amount ELSE total_amount

\* Line 84.
BytesPerSample(samplebits) == samplebits \div 8

\* Faulty variant of Degraded: the initialised flag is not looked at.
Degraded_NoInitCheck(inited, buffer, size, bytesPerSample) ==
    buffer = 0 \/ size <= 0 \/ bytesPerSample <= 0

\* Line 91: the callback cannot read the ring buffer.
Degraded(inited, buffer, size, bytesPerSample) ==
    ~inited \/ buffer = 0 \/ size <= 0 \/ bytesPerSample <= 0

\* Faulty variant of AtEnd: the end of the ring buffer is never noticed.
AtEnd_Never(pos, size) == FALSE

\* Line 102: the byte offset has reached the end of the ring buffer.
AtEnd(pos, size) == pos >= size

\* Faulty variant of CopyLen: the run is not clamped to the end of the buffer.
CopyLen_NoClamp(size, pos, len) == len

\* Lines 105-107: the run copied by one iteration.
CopyLen(size, pos, len) ==
    IF size - pos > len THEN len ELSE size - pos

\* Faulty variant of Advance: the cursor advances by bytes.
Advance_InBytes(cursor, len1, bytesPerSample) == cursor + len1

\* Line 113: the cursor after a copy of len1 bytes.
Advance(cursor, len1, bytesPerSample) == cursor + (len1 \div bytesPerSample)

\* Faulty variant of Remaining: the request length is not reduced.
Remaining_Unchanged(len, len1) == len

\* Line 114: the request length left after a copy of len1 bytes.
Remaining(len, len1) == len - len1

\* The device thread asks for more data while the stream's device runs, the
\* stream's lock is free and fewer than MaxQueued bytes are queued.
\* Lines 83-95: the request length, the degraded path.
SNDDMA_AudioCallback_EnterWith(additional_amount, total_amount) ==
    /\ cb.pc = "idle"
    /\ sdlPlaybackOpen > 0
    /\ ~pbPaused
    /\ pbLock = "none"
    /\ OutLen(out) < MaxQueued
    /\ LET len == RequestLen(additional_amount, total_amount)
           bytesPerSample == BytesPerSample(dma.samplebits)
           here == [pc |-> "idle", len |-> len, bytesPerSample |-> bytesPerSample,
                    req |-> len, start |-> OutLen(out), cursor |-> dmapos]
       IN  IF len <= 0
           THEN /\ cb' = here
                /\ UNCHANGED << out, pbLock >>
           ELSE IF Degraded(snd_inited, dma.buffer, dmasize, bytesPerSample)
           THEN /\ out' = out \o SNDDMA_QueueSilence(len, 93)
                /\ cb' = [here EXCEPT !.len = 0]
                /\ UNCHANGED pbLock
           ELSE /\ len <= MaxPasses * dmasize
                /\ cb' = [here EXCEPT !.pc = "loop"]
                /\ pbLock' = "callback"
                /\ UNCHANGED out
    /\ ret' = NoReturn
    /\ UNCHANGED << coreVars, sdlAudioRef, sdlPlaybackOpen, sdlCaptureOpen, pbPaused,
                    pbGain, capRunning, capQueued, mainPc, local >>

\* The callback entered with any of the requests the device makes.
SNDDMA_AudioCallback_Enter ==
    \E r \in Requests : SNDDMA_AudioCallback_EnterWith(r[1], r[2])

\* Lines 97-115: one iteration of the copy loop.
SNDDMA_AudioCallback_Loop ==
    /\ cb.pc = "loop"
    /\ LET wrap == AtEnd(dmapos * cb.bytesPerSample, dmasize)
           pos  == IF wrap THEN 0 ELSE dmapos * cb.bytesPerSample
           cur  == IF wrap THEN 0 ELSE dmapos
           len1 == CopyLen(dmasize, pos, cb.len)
       IN  IF len1 <= 0
           THEN /\ dmapos' = cur
                /\ cb' = [cb EXCEPT !.pc = "tail"]
                /\ UNCHANGED out
           ELSE /\ \E data \in RingRead(pos, len1) :
                      out' = Append(out, Put(112, pos, data))
                /\ dmapos' = Advance(cur, len1, cb.bytesPerSample)
                /\ cb' = [cb EXCEPT !.len = Remaining(cb.len, len1),
                                    !.pc = IF Remaining(cb.len, len1) > 0
                                           THEN "loop" ELSE "tail"]
    /\ ret' = NoReturn
    /\ UNCHANGED << snd_inited, dmasize, dma, heap, sdlPlaybackStream,
                    sdlPlaybackDevice, sdlCaptureStream, sdlCaptureDevice,
                    sdlMasterGain, sdlAudioRef, sdlPlaybackOpen, sdlCaptureOpen,
                    pbPaused, pbGain, pbLock, capRunning, capQueued, mainPc, local >>

\* Faulty variant of SNDDMA_AudioCallback_Return: the ring buffer is zeroed
\* once it has been played.
SNDDMA_AudioCallback_Return_ClearsBuffer ==
    /\ cb.pc = "tail"
    /\ out' = out \o SNDDMA_QueueSilence(cb.len, 118)
    /\ dmapos' = IF AtEnd(dmapos * cb.bytesPerSample, dmasize) THEN 0 ELSE dmapos
    /\ heap' = [heap EXCEPT !.nz = NoBytes]
    /\ cb' = [cb EXCEPT !.pc = "idle", !.len = 0]
    /\ pbLock' = "none"
    /\ ret' = NoReturn
    /\ UNCHANGED << snd_inited, dmasize, dma, sdlPlaybackStream,
                    sdlPlaybackDevice, sdlCaptureStream, sdlCaptureDevice,
                    sdlMasterGain, sdlAudioRef, sdlPlaybackOpen, sdlCaptureOpen,
                    pbPaused, pbGain, capRunning, capQueued, mainPc, local >>

\* Lines 117-122: silence for what the loop left, the cursor reset at the
\* buffer end, return.
SNDDMA_AudioCallback_Return ==
    /\ cb.pc = "tail"
    /\ out' = out \o SNDDMA_QueueSilence(cb.len, 118)
    /\ dmapos' = IF AtEnd(dmapos * cb.bytesPerSample, dmasize) THEN 0 ELSE dmapos
    /\ cb' = [cb EXCEPT !.pc = "idle", !.len = 0]
    /\ pbLock' = "none"
    /\ ret' = NoReturn
    /\ UNCHANGED << snd_inited, dmasize, dma, heap, sdlPlaybackStream,
                    sdlPlaybackDevice, sdlCaptureStream, sdlCaptureDevice,
                    sdlMasterGain, sdlAudioRef, sdlPlaybackOpen, sdlCaptureOpen,
                    pbPaused, pbGain, capRunning, capQueued, mainPc, local >>

\* -------------------------------------------------------- SNDDMA_GetDMAPos

\* Faulty variant of SNDDMA_GetDMAPos: the cursor is reported in bytes.
SNDDMA_GetDMAPos_InBytes ==
    /\ mainPc \in {"idle", "painting"}
    /\ ret' = Return("SNDDMA_GetDMAPos", 333, dmapos * (dma.samplebits \div 8))
    /\ UNCHANGED << coreVars, sdlVars, cb, mainPc, local >>

\* Lines 331-334.  The mixer calls it with or without the stream's lock.
SNDDMA_GetDMAPos ==
    /\ mainPc \in {"idle", "painting"}
    /\ ret' = Return("SNDDMA_GetDMAPos", 333, dmapos)
    /\ UNCHANGED << coreVars, sdlVars, cb, mainPc, local >>

\* --------------------------------------------------------- SNDDMA_Shutdown

\* Faulty variant of SNDDMA_Shutdown_Streams: the ring buffer is freed and its
\* size reset first, the streams are left for later.
SNDDMA_Shutdown_Streams_FreesFirst ==
    /\ mainPc = "idle"
    /\ heap' = NoHeap
    /\ dma' = [dma EXCEPT !.buffer = 0]
    /\ dmapos' = 0
    /\ dmasize' = 0
    /\ mainPc' = "shutdown_quit"
    /\ local' = [local EXCEPT !.released = 0]
    /\ ret' = NoReturn
    /\ UNCHANGED << snd_inited, sdlPlaybackStream, sdlPlaybackDevice, sdlCaptureStream,
                    sdlCaptureDevice, sdlMasterGain, sdlVars, cb >>

\* Lines 343-363: both streams destroyed, the audio subsystem released.
\* SNDDMA_Shutdown returns nothing; local.released, and ret.val at its
\* return, count what the call released (streams destroyed, buffer freed).
\* SDL_DestroyAudioStream takes the stream's lock, so it waits for a running
\* callback to return; the stream's queue and lock go with the stream.
SNDDMA_Shutdown_Streams ==
    /\ mainPc = "idle"
    /\ sdlPlaybackStream = 0 \/ pbLock # "callback"
    /\ LET pbOpen  == IF sdlPlaybackStream # 0 THEN sdlPlaybackOpen - 1
                                               ELSE sdlPlaybackOpen
           capOpen == IF sdlCaptureStream # 0 THEN sdlCaptureOpen - 1
                                              ELSE sdlCaptureOpen
           gone    == sdlPlaybackStream # 0 \/ OpenAfterQuit(sdlAudioRef, pbOpen) = 0
       IN  /\ sdlPlaybackOpen' = OpenAfterQuit(sdlAudioRef, pbOpen)
           /\ sdlCaptureOpen' = OpenAfterQuit(sdlAudioRef, capOpen)
           /\ IF gone
              THEN /\ out' = << >>
                   /\ pbPaused' = TRUE
                   /\ pbLock' = "none"
                   /\ cb' = CbIdle
              ELSE UNCHANGED << out, pbPaused, pbLock, cb >>
           /\ IF sdlCaptureStream # 0 \/ OpenAfterQuit(sdlAudioRef, capOpen) = 0
              THEN /\ capRunning' = FALSE
                   /\ capQueued' = 0
              ELSE UNCHANGED << capRunning, capQueued >>
    /\ sdlPlaybackStream' = 0
    /\ sdlPlaybackDevice' = 0
    /\ sdlCaptureStream' = 0
    /\ sdlCaptureDevice' = 0
    /\ sdlAudioRef' = QuitRef(sdlAudioRef)
    /\ mainPc' = "shutdown_quit"
    /\ local' = [local EXCEPT !.released = (IF sdlPlaybackStream # 0 THEN 1 ELSE 0)
                                           + (IF sdlCaptureStream # 0 THEN 1 ELSE 0)]
    /\ ret' = NoReturn
    /\ UNCHANGED << snd_inited, dmapos, dmasize, dma, heap, sdlMasterGain, pbGain >>

\* Faulty variant of SNDDMA_Shutdown_Free: the buffer size is not reset.
SNDDMA_Shutdown_Free_KeepsSize ==
    /\ mainPc = "shutdown_quit"
    /\ heap' = NoHeap
    /\ dma' = [dma EXCEPT !.buffer = 0]
    /\ dmapos' = 0
    /\ snd_inited' = FALSE
    /\ mainPc' = "idle"
    /\ local' = NoLocal
    /\ ret' = Return("SNDDMA_Shutdown", 369,
                     local.released + (IF dma.buffer # 0 THEN 1 ELSE 0))
    /\ UNCHANGED << dmasize, sdlPlaybackStream, sdlPlaybackDevice, sdlCaptureStream,
                    sdlCaptureDevice, sdlMasterGain, sdlVars, cb >>

\* Lines 364-369: the ring buffer freed, cursor and size reset, the flag
\* cleared.
SNDDMA_Shutdown_Free ==
    /\ mainPc = "shutdown_quit"
    /\ heap' = NoHeap
    /\ dma' = [dma EXCEPT !.buffer = 0]
    /\ dmapos' = 0
    /\ dmasize' = 0
    /\ snd_inited' = FALSE
    /\ mainPc' = "idle"
    /\ local' = NoLocal
    /\ ret' = Return("SNDDMA_Shutdown", 369,
                     local.released + (IF dma.buffer # 0 THEN 1 ELSE 0))
    /\ UNCHANGED << sdlPlaybackStream, sdlPlaybackDevice, sdlCaptureStream,
                    sdlCaptureDevice, sdlMasterGain, sdlVars, cb >>

\* --------------------------------------------------------- the mixer bracket

\* Faulty variant of SNDDMA_BeginPainting: the stream is not locked.
SNDDMA_BeginPainting_NoLock ==
    /\ mainPc = "idle"
    /\ mainPc' = "painting"
    /\ ret' = NoReturn
    /\ UNCHANGED << coreVars, sdlVars, cb, local >>

\* SDL_LockAudioStream waits while the device thread holds the lock.
SNDDMA_BeginPainting ==
    /\ mainPc = "idle"
    /\ IF sdlPlaybackStream # 0
       THEN /\ pbLock = "none"
            /\ pbLock' = "main"
       ELSE UNCHANGED pbLock
    /\ mainPc' = "painting"
    /\ ret' = NoReturn
    /\ UNCHANGED << coreVars, sdlAudioRef, sdlPlaybackOpen, sdlCaptureOpen, pbPaused,
                    pbGain, out, capRunning, capQueued, cb, local >>

SNDDMA_Submit ==
    /\ mainPc = "painting"
    /\ pbLock' = IF sdlPlaybackStream # 0 THEN "none" ELSE pbLock
    /\ mainPc' = "idle"
    /\ ret' = NoReturn
    /\ UNCHANGED << coreVars, sdlAudioRef, sdlPlaybackOpen, sdlCaptureOpen, pbPaused,
                    pbGain, out, capRunning, capQueued, cb, local >>

\* The byte the mixer writes at a ring-buffer offset (never zero, and
\* different at every offset it writes to).
PaintByte(off) == off + 1

\* The mixer writes one whole sample of the ring buffer, between
\* SNDDMA_BeginPainting and SNDDMA_Submit.
MixerWrite ==
    /\ mainPc = "painting"
    /\ dma.buffer # 0
    /\ heap.allocated
    /\ \E s \in 0..(MaxPaintSamples - 1) :
          LET width == dma.samplebits \div 8
          IN  /\ s < dma.samples
              /\ (s + 1) * width <= heap.n
              /\ heap' = Overwrite(heap, s * width,
                            [n |-> width,
                             nz |-> [i \in 0..(width - 1) |-> PaintByte(s * width + i)]])
                          @@ [allocated |-> TRUE]
    /\ ret' = NoReturn
    /\ UNCHANGED << snd_inited, dmapos, dmasize, dma, sdlPlaybackStream,
                    sdlPlaybackDevice, sdlCaptureStream, sdlCaptureDevice,
                    sdlMasterGain, sdlVars, cb, mainPc, local >>

\* ------------------------------------------------------------- capture

\* Faulty variant of SNDDMA_StartCapture: the stream is not cleared.
SNDDMA_StartCapture_NoClear ==
    /\ mainPc = "idle"
    /\ IF sdlCaptureStream # 0
       THEN capRunning' = TRUE
       ELSE UNCHANGED capRunning
    /\ ret' = NoReturn
    /\ UNCHANGED << coreVars, sdlAudioRef, sdlPlaybackOpen, sdlCaptureOpen, pbPaused,
                    pbGain, pbLock, out, capQueued, cb, mainPc, local >>

\* Lines 397-406.
SNDDMA_StartCapture ==
    /\ mainPc = "idle"
    /\ IF sdlCaptureStream # 0
       THEN /\ capQueued' = 0
            /\ capRunning' = TRUE
       ELSE UNCHANGED << capQueued, capRunning >>
    /\ ret' = NoReturn
    /\ UNCHANGED << coreVars, sdlAudioRef, sdlPlaybackOpen, sdlCaptureOpen, pbPaused,
                    pbGain, pbLock, out, cb, mainPc, local >>

\* SDL_GetAudioStreamAvailable reports the queued bytes, or -1.
SNDDMA_AvailableCaptureSamples ==
    /\ mainPc = "idle"
    /\ IF sdlCaptureStream # 0
       THEN \E bytes \in {capQueued, -1} :
               ret' = Return("SNDDMA_AvailableCaptureSamples", 414,
                             IF bytes > 0 THEN bytes \div 2 ELSE 0)
       ELSE ret' = Return("SNDDMA_AvailableCaptureSamples", 416, 0)
    /\ UNCHANGED << coreVars, sdlVars, cb, mainPc, local >>

\* Faulty variant of CaptureWrite: the shortfall is not zeroed.
CaptureWrite_NoShortfallFill(streamOpen, samples, res, data, mic) ==
    IF streamOpen
    THEN IF res > 0 THEN Overwrite(data, 0, Fill(res, mic)) ELSE data
    ELSE Overwrite(data, 0, Zeros(samples * 2))

\* Lines 426-439: the caller's buffer after SNDDMA_Capture(samples, data),
\* where res is what SDL_GetAudioStreamData returned after writing res bytes
\* of microphone data (it writes nothing when it fails with -1).
CaptureWrite(streamOpen, samples, res, data, mic) ==
    IF streamOpen
    THEN LET bytes == samples * 2
             read  == IF res > 0 THEN Overwrite(data, 0, Fill(res, mic)) ELSE data
             got   == IF res < 0 THEN 0 ELSE res
         IN  IF got < bytes THEN Overwrite(read, got, Zeros(bytes - got)) ELSE read
    ELSE Overwrite(data, 0, Zeros(samples * 2))

\* SDL_GetAudioStreamData hands over what is queued, up to the bytes asked
\* for, or fails with -1.  The caller's buffer holds 2 * MaxCaptureSamples
\* bytes; ret.val is the call and the buffer after it.
SNDDMA_Capture ==
    /\ mainPc = "idle"
    /\ \E samples \in CaptureCounts, stale \in StaleBytes, mic \in MicBytes :
          LET data  == Fill(2 * MaxCaptureSamples, stale)
              bytes == samples * 2
              most  == IF capQueued < bytes THEN capQueued ELSE bytes
          IN  \E res \in {-1, most} :
                 LET got == IF sdlCaptureStream # 0 /\ res > 0 THEN res ELSE 0
                 IN  /\ capQueued' = capQueued - got
                     /\ ret' = Return("SNDDMA_Capture",
                                      IF sdlCaptureStream # 0 THEN 434 ELSE 438,
                                      [samples |-> samples, supplied |-> got,
                                       data |-> CaptureWrite(sdlCaptureStream # 0,
                                                   samples, res, data, mic)])
    /\ UNCHANGED << coreVars, sdlAudioRef, sdlPlaybackOpen, sdlCaptureOpen, pbPaused,
                    pbGain, pbLock, out, capRunning, cb, mainPc, local >>

SNDDMA_StopCapture ==
    /\ mainPc = "idle"
    /\ capRunning' = IF sdlCaptureStream # 0 THEN FALSE ELSE capRunning
    /\ ret' = NoReturn
    /\ UNCHANGED << coreVars, sdlAudioRef, sdlPlaybackOpen, sdlCaptureOpen, pbPaused,
                    pbGain, pbLock, out, capQueued, cb, mainPc, local >>

\* The capture device delivers one sample (two bytes) while it runs.
CaptureDeviceFeed ==
    /\ sdlCaptureOpen > 0
    /\ capRunning
    /\ capQueued + 2 <= MaxCapQueued
    /\ capQueued' = capQueued + 2
    /\ ret' = NoReturn
    /\ UNCHANGED << coreVars, sdlAudioRef, sdlPlaybackOpen, sdlCaptureOpen, pbPaused,
                    pbGain, pbLock, out, capRunning, cb, mainPc, local >>

\* SDL_SetAudioStreamGain takes the stream's lock.
SNDDMA_MasterGain ==
    /\ mainPc = "idle"
    /\ sdlPlaybackStream = 0 \/ pbLock # "callback"
    /\ \E val \in Gains :
          /\ sdlMasterGain' = val
          /\ pbGain' = IF sdlPlaybackStream # 0 THEN val ELSE pbGain
    /\ ret' = NoReturn
    /\ UNCHANGED << snd_inited, dmapos, dmasize, dma, heap, sdlPlaybackStream,
                    sdlPlaybackDevice, sdlCaptureStream, sdlCaptureDevice,
                    sdlAudioRef, sdlPlaybackOpen, sdlCaptureOpen, pbPaused, pbLock,
                    out, capRunning, capQueued, cb, mainPc, local >>

\* ------------------------------------------------------------ specification

Next ==
    \/ SNDDMA_Init_Negotiate
    \/ SNDDMA_Init_Allocate
    \/ SNDDMA_Init_Resume
    \/ SNDDMA_Init_Finish
    \/ SNDDMA_AudioCallback_Enter
    \/ SNDDMA_AudioCallback_Loop
    \/ SNDDMA_AudioCallback_Return
    \/ SNDDMA_GetDMAPos
    \/ SNDDMA_Shutdown_Streams
    \/ SNDDMA_Shutdown_Free
    \/ SNDDMA_BeginPainting
    \/ MixerWrite
    \/ SNDDMA_Submit
    \/ SNDDMA_StartCapture
    \/ SNDDMA_AvailableCaptureSamples
    \/ SNDDMA_Capture
    \/ SNDDMA_StopCapture
    \/ CaptureDeviceFeed
    \/ SNDDMA_MasterGain

Spec == Init /\ [][Next]_vars

\* ------------------------------------------------- ring-buffer sizing alone

\* Formats, channel counts, buffer sizes in frames and overrides for the
\* sizing of lines 252-270 taken alone.
SizingFormats == Formats \cup { [bits |-> 32, isfloat |-> TRUE] }

SizingChannels == {1, 2}

SizingFrames == {0, 1, 1024}

SizingOverrides == {-1, 0, 1, 3, 4097}

\* SNDDMA_Init at line 243, called in the state Init describes: the stream
\* is open and paused, the device has reported its format and buffer size.
InitSizing ==
    /\ snd_inited = FALSE
    /\ dmapos = 0
    /\ dmasize = 0
    /\ dma = [buffer |-> 0, samplebits |-> 0, isfloat |-> FALSE, channels |-> 0,
              samples |-> 0, fullsamples |-> 0, submission_chunk |-> 0, speed |-> 0]
    /\ heap = NoHeap
    /\ sdlPlaybackStream = 1
    /\ sdlPlaybackDevice = 1
    /\ sdlCaptureStream = 0
    /\ sdlCaptureDevice = 0
    /\ sdlMasterGain = 1
    /\ sdlAudioRef = 1
    /\ sdlPlaybackOpen = 1
    /\ sdlCaptureOpen = 0
    /\ pbPaused = TRUE
    /\ pbGain = 1
    /\ pbLock = "none"
    /\ out = << >>
    /\ capRunning = FALSE
    /\ capQueued = 0
    /\ cb = CbIdle
    /\ mainPc = "init_negotiated"
    /\ \E f \in SizingFormats, c \in SizingChannels, hz \in ObtainedFreqs,
          n \in SizingFrames :
          local = [obtained |-> [bits |-> f.bits, isfloat |-> f.isfloat,
                                 channels |-> c, freq |-> hz],
                   obtainedSamples |-> n, released |-> 0]
    /\ ret = NoReturn

\* Lines 252-279, for the overrides of SizingOverrides.
SNDDMA_Init_Sizing ==
    \E mixSamps \in SizingOverrides, allocOk \in BOOLEAN :
       SNDDMA_Init_AllocateWith(mixSamps, allocOk)

SpecSizing == InitSizing /\ [][SNDDMA_Init_Sizing]_vars

\* ------------------------------------------- the callback in any state

\* Values of the fields the callback reads, well formed or not: a cursor
\* before or past the buffer, a size that is negative, zero or no multiple
\* of the sample width, a sample width of 0 or 3 bytes.
AnyCursors == {-1, 0, 1, 2, 5}

AnySizes == {-1, 0, 1, 2, 3, 4}

AnySampleBits == {0, 8, 16, 24}

\* A block of two bytes, whatever dmasize says.
AnyHeap(buffer) ==
    IF buffer # 0 THEN [allocated |-> TRUE, n |-> 2, nz |-> NoBytes] ELSE NoHeap

\* The playback stream is open and its device runs; snd_inited, dmapos,
\* dmasize, dma.buffer and dma.samplebits hold any of the values above.
InitAnyState ==
    /\ snd_inited \in BOOLEAN
    /\ dmapos \in AnyCursors
    /\ dmasize \in AnySizes
    /\ \E buffer \in {0, 1}, bits \in AnySampleBits :
          /\ dma = [buffer |-> buffer, samplebits |-> bits, isfloat |-> FALSE,
                    channels |-> 1, samples |-> 1, fullsamples |-> 1,
                    submission_chunk |-> 1, speed |-> 44100]
          /\ heap = AnyHeap(buffer)
    /\ sdlPlaybackStream = 1
    /\ sdlPlaybackDevice = 1
    /\ sdlCaptureStream = 0
    /\ sdlCaptureDevice = 0
    /\ sdlMasterGain = 1
    /\ sdlAudioRef = 1
    /\ sdlPlaybackOpen = 1
    /\ sdlCaptureOpen = 0
    /\ pbPaused = FALSE
    /\ pbGain = 1
    /\ pbLock = "none"
    /\ out = << >>
    /\ capRunning = FALSE
    /\ capQueued = 0
    /\ cb = CbIdle
    /\ mainPc = "idle"
    /\ local = NoLocal
    /\ ret = NoReturn

\* The callback, and the mixer bracket on the main thread.
NextCallback ==
    \/ SNDDMA_AudioCallback_Enter
    \/ SNDDMA_AudioCallback_Loop
    \/ SNDDMA_AudioCallback_Return
    \/ SNDDMA_BeginPainting
    \/ MixerWrite
    \/ SNDDMA_Submit

\* The device thread keeps running a callback it has begun; nothing is
\* assumed of the main thread, nor of when the device asks for data.
SpecCallback ==
    /\ InitAnyState
    /\ [][NextCallback]_vars
    /\ WF_vars(SNDDMA_AudioCallback_Loop)
    /\ WF_vars(SNDDMA_AudioCallback_Return)

\* ------------------------------------- the callback on a playing buffer

\* Ring buffers of one to four mono samples, as s_sdlMixSamps = 1..4 gives.
PlayingSamples == {1, 2, 3, 4}

\* Requests of whole 16-bit samples, and one of a single byte.
WholeRequests == { <<1, 1>>, <<2, 2>>, <<0, 4>>, <<6, 6>>, <<10, 10>> }

\* The state SNDDMA_Init and earlier callbacks leave behind: snd_inited set,
\* the ring buffer allocated and zeroed, dmasize its size, the stream
\* running, the cursor at any sample of the buffer.
InitPlaying ==
    /\ snd_inited = TRUE
    /\ \E f \in Formats, samples \in PlayingSamples :
          /\ dma = [buffer |-> 1, samplebits |-> f.bits, isfloat |-> f.isfloat,
                    channels |-> 1, samples |-> samples, fullsamples |-> samples,
                    submission_chunk |-> 1, speed |-> 44100]
          /\ dmasize = RingBytes(samples, f.bits)
          /\ heap = [allocated |-> TRUE, n |-> RingBytes(samples, f.bits), nz |-> NoBytes]
          /\ dmapos \in 0..(samples - 1)
    /\ sdlPlaybackStream = 1
    /\ sdlPlaybackDevice = 1
    /\ sdlCaptureStream = 0
    /\ sdlCaptureDevice = 0
    /\ sdlMasterGain = 1
    /\ sdlAudioRef = 1
    /\ sdlPlaybackOpen = 1
    /\ sdlCaptureOpen = 0
    /\ pbPaused = FALSE
    /\ pbGain = 1
    /\ pbLock = "none"
    /\ out = << >>
    /\ capRunning = FALSE
    /\ capQueued = 0
    /\ cb = CbIdle
    /\ mainPc = "idle"
    /\ local = NoLocal
    /\ ret = NoReturn

\* The callback entered with a request of whole samples.
SNDDMA_AudioCallback_EnterWhole ==
    \E r \in WholeRequests : SNDDMA_AudioCallback_EnterWith(r[1], r[2])

NextPlaying ==
    \/ SNDDMA_AudioCallback_EnterWhole
    \/ SNDDMA_AudioCallback_Loop
    \/ SNDDMA_AudioCallback_Return
    \/ SNDDMA_BeginPainting
    \/ MixerWrite
    \/ SNDDMA_Submit

SpecPlaying == InitPlaying /\ [][NextPlaying]_vars

\* ------------------------------------------------------------------ claims

\* The bytes of a put, each with the line that put it, its offset in the
\* source and its value.
PutBytes(p) ==
    [i \in 1..p.data.n |-> [line |-> p.line, off |-> p.pos + (i - 1),
                            val |-> ByteAt(p.data, i - 1)]]

RECURSIVE Stream(_)
\* The bytes queued on the playback stream, in order.
Stream(puts) ==
    IF puts = << >> THEN << >> ELSE PutBytes(Head(puts)) \o Stream(Tail(puts))

\* The callback has returned from a request of more than zero bytes.
CallbackReturned == cb.pc = "idle" /\ cb.req > 0

\* C1: a callback invoked with len > 0 puts exactly len bytes on the stream,
\* whatever state the ring buffer is in.
C1_OutputLength == CallbackReturned => OutLen(out) = cb.start + cb.req

\* A request longer than the silence array was answered, in two chunks, while
\* SNDDMA_Init had resumed the stream but not yet set snd_inited.
C1_Witness ==
    /\ CallbackReturned
    /\ ~snd_inited
    /\ cb.req > SilenceSize
    /\ Len(out) >= 2
    /\ OutLen(out) = cb.start + cb.req

\* C2: after every callback invocation with a positive length returns,
\* 0 <= dmapos < dma.samples.
C2_CursorInRange == CallbackReturned => (0 <= dmapos /\ dmapos < dma.samples)

\* Every callback since the stream was opened with the cursor at 0 ran on an
\* initialised, non-empty ring buffer, and together they were asked for
\* exactly twice its size.
C3_TwoBufferLengths ==
    /\ snd_inited
    /\ cb.pc = "idle"
    /\ dmasize > 0
    /\ OutLen(out) = 2 * dmasize
    /\ \A i \in 1..Len(out) : out[i].line # 93

\* The stream is two passes over the ring buffer: byte k of it was read
\* from offset k mod N of the ring buffer and is what the buffer held there
\* (zero before the mixer wrote to it, the mixer's byte after).
C3_TwoPasses ==
    LET st == Stream(out)
    IN  \A k \in 1..Len(st) :
           /\ st[k].line = 112
           /\ st[k].off = (k - 1) % dmasize
           /\ st[k].val \in {0, ByteAt(heap, st[k].off)}

\* Every request so far was for whole samples: a request that is not a
\* multiple of the sample width leads to a put that is not.
C3_WholeSampleRequests ==
    \A i \in 1..Len(out) : out[i].data.n % BytesPerSample(dma.samplebits) = 0

C4_SilenceDegradation ==
    [][ ( /\ SNDDMA_AudioCallback_Enter
          /\ cb'.req > 0
          /\ ( ~snd_inited \/ dma.buffer = 0 \/ dmasize <= 0
                \/ dma.samplebits \div 8 <= 0 ) )
        => ( /\ cb'.pc = "idle"
             /\ dmapos' = dmapos
             /\ Len(out') > Len(out)
             /\ SubSeq(out', 1, Len(out)) = out
             /\ OutLen(out') = OutLen(out) + cb'.req
             /\ \A i \in (Len(out) + 1)..Len(out') : out'[i].data.nz = NoBytes )
      ]_vars

\* A callback has answered with silence between the resume of the stream and
\* the setting of snd_inited, on an allocated ring buffer.
C4_Witness ==
    /\ CallbackReturned
    /\ mainPc = "init_resumed"
    /\ ~snd_inited
    /\ dma.buffer # 0
    /\ dmasize > 0
    /\ out # << >>
    /\ \A i \in 1..Len(out) : out[i].data.nz = NoBytes
    /\ dmapos = 0

\* C5: while initialised, no callback runs between SNDDMA_BeginPainting and
\* SNDDMA_Submit: the main thread holds the stream's lock, the callback is
\* not in progress, and no step taken inside the bracket moves the cursor or
\* queues data.
C5_MutualExclusion ==
    /\ []( (snd_inited /\ mainPc = "painting")
            => (pbLock = "main" /\ cb.pc = "idle") )
    /\ [][ (snd_inited /\ mainPc = "painting" /\ mainPc' = "painting")
            => (dmapos' = dmapos /\ out' = out /\ cb' = cb) ]_vars

\* The mixer has written to the ring buffer inside the bracket, after
\* callbacks have moved the cursor.
C5_Witness ==
    /\ snd_inited
    /\ mainPc = "painting"
    /\ heap.nz # NoBytes
    /\ dmapos > 0
    /\ out # << >>

\* SNDDMA_Init has just returned failure.
InitFailed == ret.fn = "SNDDMA_Init" /\ ret.val = FALSE

\* No stream is open, the audio subsystem is shut down, no ring buffer is
\* allocated and the initialised flag is false.
ResourcesReleased ==
    /\ sdlPlaybackStream = 0
    /\ sdlPlaybackDevice = 0
    /\ sdlCaptureStream = 0
    /\ sdlCaptureDevice = 0
    /\ sdlPlaybackOpen = 0
    /\ sdlCaptureOpen = 0
    /\ sdlAudioRef = 0
    /\ dma.buffer = 0
    /\ ~heap.allocated
    /\ ~snd_inited

\* Every failure of SNDDMA_Init releases what the call had acquired.
InitFailureReleases == InitFailed => ResourcesReleased

\* SNDDMA_Init has failed at line 278, after the stream was open.
InitFailureReleases_Witness == InitFailed /\ ret.line = 278 /\ ResourcesReleased

\* C6: when SNDDMA_Init returns failure, every resource acquired in an
\* earlier step has been released and no partial state is left behind: no
\* ring-buffer size without a ring buffer.
C6_FailureUnwinds == InitFailed => (ResourcesReleased /\ dmasize = 0)

\* The state SNDDMA_Shutdown leaves.
ShutDown ==
    /\ dmapos = 0
    /\ dmasize = 0
    /\ dma.buffer = 0
    /\ ~heap.allocated
    /\ sdlPlaybackStream = 0
    /\ sdlPlaybackDevice = 0
    /\ sdlCaptureStream = 0
    /\ sdlCaptureDevice = 0
    /\ ~snd_inited

\* C7: after SNDDMA_Shutdown, from any state, the cursor and the buffer size
\* are 0, the buffer pointer and the stream handles are null and the
\* initialised flag is false; SNDDMA_Shutdown never frees a pointer that is
\* not a live block; and a SNDDMA_Shutdown called in that state changes
\* nothing, in either of its steps.
C7_IdempotentShutdown ==
    /\ []( ret.fn = "SNDDMA_Shutdown" => ShutDown )
    /\ []( (mainPc = "shutdown_quit" /\ dma.buffer # 0) => heap.allocated )
    /\ [][ (ShutDown /\ (SNDDMA_Shutdown_Streams \/ SNDDMA_Shutdown_Free))
            => UNCHANGED << coreVars, sdlVars, cb >> ]_vars
    /\ [][ (ShutDown /\ SNDDMA_Shutdown_Free)
            => ret' = Return("SNDDMA_Shutdown", 369, 0) ]_vars

\* A SNDDMA_Shutdown that found nothing to release has returned, some time
\* after a SNDDMA_Init that sized a ring buffer.
C7_Witness ==
    /\ ret = Return("SNDDMA_Shutdown", 369, 0)
    /\ dma.samples > 0
    /\ ShutDown

\* C8: SNDDMA_Init called while initialised returns success at once and
\* changes nothing: streams, ring buffer, cursor, size, format and gain.
C8_IdempotentInit ==
    [][ (snd_inited /\ SNDDMA_Init_Negotiate)
        => ( /\ ret' = Return("SNDDMA_Init", 186, TRUE)
             /\ UNCHANGED << coreVars, sdlVars, cb, mainPc, local >> ) ]_vars

\* SNDDMA_Init has returned early, with the cursor inside a ring buffer the
\* mixer has written to and the gain changed since initialisation.
C8_Witness ==
    /\ ret = Return("SNDDMA_Init", 186, TRUE)
    /\ snd_inited
    /\ dmapos > 0
    /\ heap.nz # NoBytes
    /\ sdlMasterGain # 1

\* C9: SNDDMA_Capture(count, out) writes exactly 2 * count bytes: the
\* samples the stream supplied, then zeros; all zeros with no capture stream
\* open or when the read fails; no byte past 2 * count is touched.
C9_CaptureFill ==
    ret.fn = "SNDDMA_Capture" =>
        /\ ret.val.supplied <= 2 * ret.val.samples
        /\ ret.line = 438 => ret.val.supplied = 0
        /\ \A i \in 0..(ret.val.data.n - 1) :
               IF i < ret.val.supplied
               THEN ByteAt(ret.val.data, i) \in MicBytes
               ELSE IF i < 2 * ret.val.samples
                    THEN ByteAt(ret.val.data, i) = 0
                    ELSE ByteAt(ret.val.data, i) \in StaleBytes

\* The capture stream supplied one sample of the two asked for.
C9_Witness ==
    /\ ret.fn = "SNDDMA_Capture"
    /\ ret.line = 434
    /\ ret.val.samples = 2
    /\ ret.val.supplied = 2
    /\ ByteAt(ret.val.data, 1) \in MicBytes
    /\ ByteAt(ret.val.data, 2) = 0

\* C10: after every successful SNDDMA_Init the ring-buffer sample count is
\* an exact multiple of the negotiated channel count.
C10_ChannelAlignment ==
    ret = Return("SNDDMA_Init", 323, TRUE) => CMod(dma.samples, dma.channels) = 0

\* An override of 3 samples on a two-channel device was rounded down to 2.
C10_Witness ==
    /\ ret = Return("SNDDMA_Init", 323, TRUE)
    /\ dma.channels = 2
    /\ dma.samples = 2

\* The reference sizing: the override if it is set, else frames x channels
\* x 10; channels x 2048 if that is zero or negative; rounded down to a
\* multiple of the channel count.
C11_ReferenceSamples(override, frames, channels) ==
    LET wanted   == IF override # 0 THEN override ELSE frames * channels * 10
        positive == IF wanted <= 0 THEN channels * 2048 ELSE wanted
    IN  (positive \div channels) * channels

\* C11: the sample count SNDDMA_Init computes is the reference sizing and
\* the byte size is the sample count times bits / 8, which is also the size
\* of the block allocated; 1024 frames, 2 channels, 16 bits, no override
\* give 20480 samples and 40960 bytes; override 4097 with 2 channels gives
\* 4096 samples.
C11_RingSizing ==
    [][ \A m \in SizingOverrides, ok \in BOOLEAN :
          SNDDMA_Init_AllocateWith(m, ok) =>
            LET frames   == local.obtainedSamples
                channels == local.obtained.channels
                bits     == local.obtained.bits
            IN  /\ dma'.samples = C11_ReferenceSamples(m, frames, channels)
                /\ dmasize' = dma'.samples * (bits \div 8)
                /\ ok => (heap'.allocated /\ heap'.n = dmasize')
                /\ (m = 0 /\ frames = 1024 /\ channels = 2 /\ bits = 16)
                      => (dma'.samples = 20480 /\ dmasize' = 40960)
                /\ (m = 4097 /\ channels = 2) => dma'.samples = 4096
      ]_vars

\* 1024 frames of 16-bit stereo without an override were sized and
\* allocated.
C11_Witness ==
    /\ mainPc = "init_allocated"
    /\ dma.channels = 2
    /\ dma.samplebits = 16
    /\ dma.samples = 20480
    /\ dmasize = 40960
    /\ heap.allocated
    /\ heap.n = 40960

\* Override 4097 on a two-channel device was sized.
C11_OverrideRounded ==
    /\ mainPc = "init_allocated"
    /\ dma.channels = 2
    /\ dma.samples = 4096

\* C12: at any time at most one playback stream and at most one capture
\* stream are open in the audio subsystem, and a stream is open exactly when
\* the program's handle refers to it: none is orphaned, no handle dangles.
C12_OneHandleEach ==
    /\ sdlPlaybackOpen = (IF sdlPlaybackStream # 0 THEN 1 ELSE 0)
    /\ sdlCaptureOpen = (IF sdlCaptureStream # 0 THEN 1 ELSE 0)
    /\ sdlPlaybackStream = 0 <=> sdlPlaybackDevice = 0
    /\ sdlCaptureStream = 0 <=> sdlCaptureDevice = 0

\* SNDDMA_Init has opened the playback stream again, after an earlier
\* SNDDMA_Init that sized a ring buffer and a SNDDMA_Shutdown or a failure
\* that closed its streams.
C12_Witness ==
    /\ mainPc = "init_negotiated"
    /\ dma.samples > 0
    /\ sdlPlaybackStream # 0
    /\ sdlPlaybackOpen = 1
    /\ sdlCaptureOpen = 0

\* Both streams are open after a successful SNDDMA_Init.
C12_BothOpen ==
    /\ ret = Return("SNDDMA_Init", 323, TRUE)
    /\ sdlPlaybackOpen = 1
    /\ sdlCaptureOpen = 1

C14_CursorOwnedByCallback ==
    /\ [][ ( \/ SNDDMA_BeginPainting
             \/ SNDDMA_Submit
             \/ SNDDMA_GetDMAPos
             \/ SNDDMA_StartCapture
             \/ SNDDMA_AvailableCaptureSamples
             \/ SNDDMA_Capture
             \/ SNDDMA_StopCapture
             \/ SNDDMA_MasterGain
             \/ MixerWrite )
            => dmapos' = dmapos ]_vars
    /\ [][ dmapos' > dmapos => SNDDMA_AudioCallback_Loop ]_vars
    /\ [][ dmapos' < dmapos
            => ( \/ SNDDMA_AudioCallback_Loop
                 \/ SNDDMA_AudioCallback_Return /\ dmapos' = 0
                 \/ SNDDMA_Init_Allocate /\ dmapos' = 0
                 \/ SNDDMA_Shutdown_Free /\ dmapos' = 0 ) ]_vars
    /\ [][ SNDDMA_GetDMAPos => ret'.val = dmapos ]_vars

\* SNDDMA_GetDMAPos has returned a cursor that callbacks have advanced,
\* inside the mixer bracket, on 16-bit samples.
C14_Witness ==
    /\ ret.fn = "SNDDMA_GetDMAPos"
    /\ ret.val > 0
    /\ ret.val = dmapos
    /\ mainPc = "painting"
    /\ dma.samplebits = 16

\* The copy loop of an initialised callback has ended, on a request longer
\* than the ring buffer of N > 0 bytes.
C15_LoopEndedOnLongRequest ==
    /\ cb.pc = "tail"
    /\ dmasize > 0
    /\ cb.req > dmasize

\* C15 as claimed: with a ring buffer of N > 0 bytes and a request of
\* len > N bytes the copy loop ends with a remaining length > 0 (which
\* line 118 then emits as silence).
C15_Original == C15_LoopEndedOnLongRequest => cb.len > 0

\* C15 as amended: with a ring buffer of N > 0 bytes and a request of
\* len > N bytes the copy loop wraps and ends with nothing remaining, having
\* emitted the whole request as buffer data; line 118 emits no silence,
\* for this or any other request.
C15_WrapsWithoutPadding ==
    /\ []( C15_LoopEndedOnLongRequest
            => ( /\ cb.len = 0
                 /\ OutLen(out) = cb.start + cb.req
                 /\ \A i \in 1..Len(out) :
                       OutLen(SubSeq(out, 1, i - 1)) >= cb.start
                          => out[i].line = 112 ) )
    /\ [][ SNDDMA_AudioCallback_Return => out' = out ]_vars

\* A request longer than the ring buffer was served by more than one pass
\* over it.
C15_Witness ==
    /\ C15_LoopEndedOnLongRequest
    /\ cb.len = 0
    /\ cb.start = 0
    /\ Len(out) >= 2
    /\ out[1].pos = 0
    /\ out[2].pos = 0
    /\ out[1].data.n = dmasize

\* C16: in every state, well formed or not, and for every requested length
\* the callback returns: each iteration of its loop reduces the remaining
\* length or leaves the loop, its steps are enabled whatever the main thread
\* does, and a callback that has begun returns.
C16_CallbackTerminates ==
    /\ [][ SNDDMA_AudioCallback_Loop
            => ( /\ cb.len > 0
                 /\ cb'.len >= 0
                 /\ cb'.len < cb.len \/ cb'.pc = "tail" ) ]_vars
    /\ [](cb.pc = "loop" => ENABLED SNDDMA_AudioCallback_Loop)
    /\ [](cb.pc = "tail" => ENABLED SNDDMA_AudioCallback_Return)
    /\ (cb.pc # "idle") ~> (cb.pc = "idle")

\* A callback has returned that began with the cursor before the start of
\* the ring buffer.
C16_Witness ==
    /\ CallbackReturned
    /\ out # << >>
    /\ out[1].line = 112
    /\ out[1].pos < 0
    /\ OutLen(out) = cb.start + cb.req

\* C17: a step of the callback changes only the cursor and appends to the
\* output stream; the ring buffer's bytes, its size, the negotiated format,
\* the initialised flag, the stream handles and device ids, whether the
\* capture stream runs and what it has queued, and the gain stay as they
\* are.
C17_CallbackFrame ==
    [][ ( \/ SNDDMA_AudioCallback_Enter
          \/ SNDDMA_AudioCallback_Loop
          \/ SNDDMA_AudioCallback_Return )
        => ( /\ UNCHANGED << heap, dmasize, dma, snd_inited, sdlPlaybackStream,
                            sdlPlaybackDevice, sdlCaptureStream, sdlCaptureDevice,
                            capRunning, capQueued, sdlMasterGain, pbGain, pbPaused,
                            sdlAudioRef, sdlPlaybackOpen, sdlCaptureOpen >>
             /\ Len(out') >= Len(out)
             /\ SubSeq(out', 1, Len(out)) = out ) ]_vars

\* A callback has played mixer data from the ring buffer, moved the cursor
\* and returned; the capture stream runs and the gain is not the default.
C17_Witness ==
    /\ CallbackReturned
    /\ snd_inited
    /\ dmapos > 0
    /\ heap.nz # NoBytes
    /\ capRunning
    /\ sdlMasterGain # 1
    /\ \E i \in 1..Len(out) : out[i].line = 112 /\ out[i].data.nz # NoBytes

\* C18: while initialised, every value SNDDMA_GetDMAPos returns satisfies
\* 0 <= value < dma.samples, also when the call falls between the callback's
\* advance of the cursor and its reset at the buffer end.
C18_PositionInRange ==
    (snd_inited /\ ret.fn = "SNDDMA_GetDMAPos")
        => (0 <= ret.val /\ ret.val < dma.samples)

\* The same on a ring buffer that is not empty.
C18_PositionInRangeNonEmpty ==
    (snd_inited /\ ret.fn = "SNDDMA_GetDMAPos" /\ dma.samples > 0)
        => (0 <= ret.val /\ ret.val < dma.samples)

\* Outside a callback the value is in range on a ring buffer that is not
\* empty.
C18_PositionInRangeOutsideCallback ==
    (snd_inited /\ ret.fn = "SNDDMA_GetDMAPos" /\ dma.samples > 0 /\ cb.pc = "idle")
        => (0 <= ret.val /\ ret.val < dma.samples)

\* C19: in every interleaving of the callback with SNDDMA_Init and
\* SNDDMA_Shutdown, the callback copies from the ring buffer only while the
\* buffer is allocated and dmasize is the size of the allocation; Shutdown has
\* destroyed the playback stream, so that no callback runs, when it frees the
\* buffer; Init has allocated the buffer and set its size when it resumes the
\* stream.
C19_NoReadOfReleasedBuffer ==
    /\ [] ( cb.pc \in {"loop", "tail"}
            => /\ heap.allocated
               /\ dma.buffer # 0
               /\ heap.n = dmasize
               /\ sdlPlaybackStream # 0
               /\ mainPc # "shutdown_quit" )
    /\ [][ (Len(out') > Len(out) /\ out'[Len(out')].line = 112)
            => LET put == out'[Len(out')]
               IN  /\ heap.allocated /\ heap'.allocated
                   /\ heap.n = dmasize
                   /\ put.pos >= 0
                   /\ put.pos + put.data.n <= heap.n
                   /\ put.data = Slice(heap, put.pos, put.data.n) ]_vars
    /\ [][ (heap.allocated /\ ~heap'.allocated)
            => /\ sdlPlaybackStream = 0
               /\ sdlPlaybackOpen = 0
               /\ cb.pc = "idle"
               /\ dmasize' = 0 /\ dmapos' = 0 ]_vars
    /\ [][ (pbPaused /\ ~pbPaused')
            => /\ heap.allocated /\ heap'.allocated
               /\ dma'.buffer # 0
               /\ heap'.n = dmasize' ]_vars

\* A callback that has copied from the ring buffer and is still running, the
\* main thread free to call SNDDMA_Shutdown, which waits for the callback.
C19_Witness ==
    /\ cb.pc = "loop"
    /\ mainPc = "idle"
    /\ snd_inited
    /\ Len(out) > 0
    /\ out[Len(out)].line = 112
    /\ OutLen(SubSeq(out, 1, Len(out) - 1)) >= cb.start
    /\ ~ ENABLED SNDDMA_Shutdown_Streams

\* The puts of the callback that is running or has just returned.
C20_Puts == { i \in 1..Len(out) : OutLen(SubSeq(out, 1, i - 1)) >= cb.start }

\* C20: on an initialised ring buffer of dma.samples > 0 samples, a callback
\* whose request is a positive multiple of bytesPerSample leaves the cursor
\* at (cursor before + len / bytesPerSample) mod dma.samples, and the bytes
\* it emitted are the len consecutive bytes of the ring buffer that start at
\* cursor-before x bytesPerSample, taken circularly.
C20_WholeSampleAdvance ==
    [][ ( /\ SNDDMA_AudioCallback_Return
          /\ snd_inited
          /\ dma.buffer # 0
          /\ dma.samples > 0
          /\ cb.req > 0
          /\ cb.req % cb.bytesPerSample = 0 )
        => ( /\ dmapos' = (cb.cursor + cb.req \div cb.bytesPerSample) % dma.samples
             /\ out' = out
             /\ OutLen(out) = cb.start + cb.req
             /\ \A i \in C20_Puts :
                    LET before == OutLen(SubSeq(out, 1, i - 1)) - cb.start
                        pos    == (cb.cursor * cb.bytesPerSample + before)
                                     % (dma.samples * cb.bytesPerSample)
                    IN  /\ out[i].line = 112
                        /\ out[i].pos = pos
                        /\ pos + out[i].data.n <= dma.samples * cb.bytesPerSample
                        /\ out[i].data = Slice(heap, pos, out[i].data.n) ) ]_vars

\* A callback has returned from a request of more than one pass over a
\* 16-bit ring buffer that it entered with the cursor off the start, and some
\* byte it emitted was the mixer's.
C20_Witness ==
    /\ CallbackReturned
    /\ snd_inited
    /\ cb.bytesPerSample = 2
    /\ cb.cursor > 0
    /\ cb.req > dmasize
    /\ dmapos = (cb.cursor + cb.req \div cb.bytesPerSample) % dma.samples
    /\ \E i \in C20_Puts : out[i].line = 112 /\ out[i].data.nz # NoBytes

====
